---- MODULE Spec2Model ----
(***************************************************************************)
(* Model of the S38 fixed-width stock-quote extractors under               *)
(* "src/data cleaning": extract_quotes_byte_level.py (byte-offset, basic), *)
(* extract_quotes_diagnostic.py (character-offset, basic) and              *)
(* extract_stock_for_ml.py (byte-offset, filtering).                       *)
(*                                                                         *)
(* Text is a sequence of one-character strings.  A byte is one of the      *)
(* ASCII characters of Alphabet, "\r", or one of two bytes that stand for  *)
(* the CP950 double-byte range: "H" (a lead byte, 0xA4) and "@" (0x40, a   *)
(* valid trail byte that is also an ASCII character on its own).           *)
(* A price is kept as the pair the code computes, whole and frac, for the  *)
(* float whole + frac/10000.0: round(.., 4) and f"{..:.4f}" are exact on   *)
(* these values (at most 9 significant digits).                            *)
(***************************************************************************)
EXTENDS Integers, Sequences, FiniteSets, TLC

VARIABLES
    variant,        \* which script runs: "byte_level", "diagnostic" or "ml"
    pc,             \* position of main/process_file: "main", "loop" or "done"
    files_found,    \* main: number of files handed to process_file so far
    fname,          \* process_file: path.name of the file being processed
    date_tag,       \* process_file: the date resolved for the file
    lines_bytes,    \* process_file: the lines readlines() returned (see Bytes)
    lineno,         \* process_file: 1-based number of the next line to process
    rows,           \* the caller's accepted buffer
    debug_rows,     \* the caller's diagnostic buffer
    rows0,          \* history: Len(rows) when process_file was entered
    debug0,         \* history: Len(debug_rows) when process_file was entered
    lines_read,     \* history: number of lines read in the run
    raw_str,        \* parse_9digit_price: the argument
    close_val,      \* parse_9digit_price: the returned value
    parsed_by,      \* which parse_9digit_price produced close_val, or "none"
    path_name,      \* derive_date_for_file: path.name
    year_hint,      \* derive_date_for_file: the year_hint argument
    readable,       \* derive_date_for_file: whether path.open succeeds
    head,           \* derive_date_for_file: the lines of the file (see HeadBytes)
    derived,        \* derive_date_for_file: the returned value, <<>> before
    total_records,  \* main (filtering script): rows flushed so far
    first_batch,    \* main (filtering script): no flush has happened yet
    out_csv,        \* the output file: NoFile, or its header and rows
    debug_csv,      \* the diagnostics file: NoFile, or its header and rows
    accepted,       \* history: every record process_file appended, in order
    run_files       \* main: the files of the run, in processing order

vars == <<variant, pc, files_found, fname, date_tag, lines_bytes, lineno, rows,
          debug_rows, rows0, debug0, lines_read, raw_str, close_val, parsed_by,
          path_name, year_hint, readable, head, derived,
          total_records, first_batch, out_csv, debug_csv, accepted,
          run_files>>

dateVars == <<path_name, year_hint, readable, head, derived>>

mainVars == <<total_records, first_batch, out_csv, debug_csv, accepted,
              run_files>>

fileVars == <<variant, pc, files_found, fname, date_tag, lines_bytes, lineno,
              rows, debug_rows, rows0, debug0, lines_read>>

priceVars == <<raw_str, close_val, parsed_by>>

-----------------------------------------------------------------------------
(* Bounds of the model *)

\* longest argument handed to parse_9digit_price
MaxRawLen == 10
\* most files handed to process_file in one run
MaxFiles == 2
\* most lines read in one run, the first lines of the files included
MaxLines == 3

-----------------------------------------------------------------------------
(* Python values and string operations *)

\* Python's None where a number is expected (compared with prices, which are
\* records)
NONE == [none |-> TRUE]

\* a file that does not exist (a sequence, as the content of a file is)
NoFile == <<"no file">>

\* Python's None where a string is expected (compared with strings, which
\* are sequences; "None" is no character)
NoneStr == <<"None">>

Digits == {"0", "1", "2", "3", "4", "5", "6", "7", "8", "9"}

\* str.strip() / bytes.strip() whitespace among the modelled characters
Whitespace == {" ", "\r", "\n"}

\* the characters of rstrip(b'\r\n') and rstrip("\r\n")
LineEnd == {"\r", "\n"}

DigitVal(c) ==
    CASE c = "0" -> 0 [] c = "1" -> 1 [] c = "2" -> 2 [] c = "3" -> 3
      [] c = "4" -> 4 [] c = "5" -> 5 [] c = "6" -> 6 [] c = "7" -> 7
      [] c = "8" -> 8 [] c = "9" -> 9

DigitChar(n) ==
    CASE n = 0 -> "0" [] n = 1 -> "1" [] n = 2 -> "2" [] n = 3 -> "3"
      [] n = 4 -> "4" [] n = 5 -> "5" [] n = 6 -> "6" [] n = 7 -> "7"
      [] n = 8 -> "8" [] n = 9 -> "9"

Min(a, b) == IF a <= b THEN a ELSE b

Rep(c, n) == [i \in 1..n |-> c]

\* s[a:b] for 0 <= a, 0 <= b: out-of-range ends are clamped, never an error
Slice(s, a, b) == SubSeq(s, a + 1, Min(b, Len(s)))

\* s[-n:] for n >= 1
LastN(s, n) == IF Len(s) <= n THEN s ELSE SubSeq(s, Len(s) - n + 1, Len(s))

\* s[:-n] for n >= 1
DropLastN(s, n) == IF Len(s) <= n THEN <<>> ELSE SubSeq(s, 1, Len(s) - n)

\* int(s) for a non-empty string of ASCII digits
RECURSIVE int(_)
int(s) ==
    IF Len(s) = 0 THEN 0
    ELSE int(SubSeq(s, 1, Len(s) - 1)) * 10 + DigitVal(s[Len(s)])

\* str(n) for an integer n >= 0
RECURSIVE str(_)
str(n) ==
    IF n < 10 THEN <<DigitChar(n)>>
    ELSE str(n \div 10) \o <<DigitChar(n % 10)>>

\* s.zfill(w) for a string without sign
zfill(s, w) == IF Len(s) >= w THEN s ELSE Rep("0", w - Len(s)) \o s

\* re.sub(r'[^0-9]', '', s)
OnlyDigits(s) == SelectSeq(s, LAMBDA c : c \in Digits)

\* s.lstrip(chars)
lstrip(s, chars) ==
    LET keep == {i \in 1..Len(s) : s[i] \notin chars} IN
    IF keep = {} THEN <<>>
    ELSE SubSeq(s, CHOOSE i \in keep : \A j \in keep : i <= j, Len(s))

\* s.rstrip(chars)
rstrip(s, chars) ==
    LET keep == {i \in 1..Len(s) : s[i] \notin chars} IN
    IF keep = {} THEN <<>>
    ELSE SubSeq(s, 1, CHOOSE i \in keep : \A j \in keep : i >= j)

\* s.strip()
strip(s) == rstrip(lstrip(s, Whitespace), Whitespace)

\* bytes.decode("cp950", errors="replace"), read left to right: a lead byte
\* "H" followed by the trail byte "@" is one wide character "W" (the trail
\* byte is consumed); a lead byte without a trail byte becomes the
\* replacement character "?" and the byte after it is decoded on its own.
\* "H" is never a trail byte, so a byte is consumed as a trail byte exactly
\* when it is "@" and follows an "H".
decode(b) ==
    LET Trail(i) == i > 1 /\ b[i] = "@" /\ b[i - 1] = "H"
        Lead(i) == b[i] = "H" /\ i < Len(b) /\ b[i + 1] = "@"
        marked == [i \in 1..Len(b) |->
                     IF Trail(i) THEN ""
                     ELSE IF b[i] = "H"
                          THEN (IF Lead(i) THEN "W" ELSE "?")
                          ELSE b[i]]
    IN SelectSeq(marked, LAMBDA c : c # "")

-----------------------------------------------------------------------------
(* Prices *)

Price(w, f) == [whole |-> w, frac |-> f]

\* a <= b on prices
PriceLe(a, b) == a.whole < b.whole \/ (a.whole = b.whole /\ a.frac <= b.frac)

\* the price in ten-thousandths
TenThousandths(p) == p.whole * 10000 + p.frac

\* MIN_PRICE = 0.01
MIN_PRICE == Price(0, 100)

\* MAX_PRICE = 1_000_000.0
MAX_PRICE == Price(1000000, 0)

\* f"{close_val:.4f}"
Fmt4(p) == str(p.whole) \o <<".">> \o zfill(str(p.frac), 4)

parse_9digit_price_leftmost(raw) ==
    IF raw = NoneStr \/ raw = <<>> THEN NONE
    ELSE LET digits == OnlyDigits(raw) IN
         IF digits = <<>> THEN NONE
         ELSE LET d9 == IF Len(digits) < 9 THEN zfill(digits, 9)
                        ELSE SubSeq(digits, 1, 9)
              IN  Price(int(DropLastN(d9, 4)), int(LastN(d9, 4)))

parse_9digit_price_split3(raw) ==
    IF raw = NoneStr \/ raw = <<>> THEN NONE
    ELSE LET digits == OnlyDigits(raw) IN
         IF digits = <<>> THEN NONE
         ELSE LET d9 == IF Len(digits) < 9 THEN zfill(digits, 9)
                        ELSE LastN(digits, 9)
              IN  Price(int(DropLastN(d9, 3)), int(LastN(d9, 3)))

parse_9digit_price_zero(raw) ==
    IF raw = NoneStr \/ raw = <<>> THEN NONE
    ELSE LET digits == OnlyDigits(raw) IN
         LET d9 == IF Len(digits) < 9 THEN zfill(digits, 9)
                   ELSE LastN(digits, 9)
         IN  Price(int(DropLastN(d9, 4)), int(LastN(d9, 4)))

\* parse_9digit_price of extract_quotes_byte_level.py and of
\* extract_stock_for_ml.py (the same code)
parse_9digit_price(raw) ==
    IF raw = NoneStr \/ raw = <<>> THEN NONE
    ELSE LET digits == OnlyDigits(raw) IN
         IF digits = <<>> THEN NONE
         ELSE LET d9 == IF Len(digits) < 9 THEN zfill(digits, 9)
                        ELSE LastN(digits, 9)
              IN  Price(int(DropLastN(d9, 4)), int(LastN(d9, 4)))

\* parse_9digit_price of extract_quotes_diagnostic.py
parse_9digit_price_diagnostic(raw) ==
    IF raw = NoneStr THEN NONE
    ELSE LET digits == OnlyDigits(raw) IN
         IF digits = <<>> THEN NONE
         ELSE LET d9 == IF Len(digits) < 9 THEN zfill(digits, 9)
                        ELSE LastN(digits, 9)
              IN  Price(int(DropLastN(d9, 4)), int(LastN(d9, 4)))

sane_price_no_lower(v) ==
    IF v = NONE THEN FALSE
    ELSE PriceLe(v, MAX_PRICE)

sane_price_strict_lower(v) ==
    IF v = NONE THEN FALSE
    ELSE ~PriceLe(v, MIN_PRICE) /\ PriceLe(v, MAX_PRICE)

sane_price_accepts_zero(v) ==
    IF v = NONE THEN FALSE
    ELSE v = Price(0, 0) \/ (PriceLe(MIN_PRICE, v) /\ PriceLe(v, MAX_PRICE))

\* sane_price of the two basic scripts
sane_price(v) ==
    IF v = NONE THEN FALSE
    ELSE PriceLe(MIN_PRICE, v) /\ PriceLe(v, MAX_PRICE)

-----------------------------------------------------------------------------
(* Field layouts: name -> <<start, end>>, end exclusive *)

\* BYTE_POS of extract_quotes_byte_level.py
BYTE_POS ==
    [stock_id |-> <<0, 6>>, stock_name |-> <<6, 22>>,
     open_price_raw |-> <<22, 31>>, high_price_raw |-> <<31, 40>>,
     low_price_raw |-> <<40, 49>>, close_price_raw |-> <<49, 58>>,
     change_flag |-> <<58, 59>>]

\* POS of extract_quotes_diagnostic.py
POS ==
    [stock_id |-> <<0, 6>>, stock_name |-> <<6, 22>>,
     open_price_raw |-> <<22, 31>>, high_price_raw |-> <<31, 40>>,
     low_price_raw |-> <<40, 49>>, close_price_raw |-> <<49, 58>>,
     change_flag |-> <<58, 59>>]

\* BYTE_POS of extract_stock_for_ml.py
BYTE_POS_ML ==
    [stock_id |-> <<0, 6>>, open_price_raw |-> <<22, 31>>,
     high_price_raw |-> <<31, 40>>, low_price_raw |-> <<40, 49>>,
     close_price_raw |-> <<49, 58>>, change_flag |-> <<58, 59>>,
     change_amount_raw |-> <<59, 68>>, volume_raw |-> <<77, 86>>,
     amount_raw |-> <<95, 107>>]

\* max(end for _, end in BYTE_POS.values())
RECURSIVE MaxOf(_)
MaxOf(S) ==
    LET x == CHOOSE y \in S : TRUE IN
    IF S = {x} THEN x
    ELSE LET m == MaxOf(S \ {x}) IN IF x >= m THEN x ELSE m

MaxEnd(layout) == MaxOf({layout[f][2] : f \in DOMAIN layout})

\* slice_bytes(line_bytes, start, end); its except branch is never taken:
\* slicing clamps and decode(errors='replace') does not raise
slice_bytes(line_bytes, start, end) ==
    strip(decode(Slice(line_bytes, start, end)))

\* slice_bytes(line_bytes, *layout[field])
Field(line_bytes, layout, field) ==
    slice_bytes(line_bytes, layout[field][1], layout[field][2])

-----------------------------------------------------------------------------
(* Numbers of the filtering script *)

\* a Python int (a record, as None and prices are)
PyInt(n) == [int |-> n]

\* MIN_VOLUME
MIN_VOLUME == 100

\* MIN_AMOUNT
MIN_AMOUNT == 1000

\* parse_volume
parse_volume(raw) ==
    IF raw = NoneStr \/ raw = <<>> THEN NONE
    ELSE LET digits == OnlyDigits(raw) IN
         IF digits = <<>> THEN NONE ELSE PyInt(int(digits))

\* `not v` for a price or None
NotPrice(v) == v = NONE \/ v = Price(0, 0)

\* `not v` for an int or None
NotInt(v) == v = NONE \/ v = PyInt(0)

\* re.match(r'^\d+$', sid) for the modelled characters
AllDigits(sid) == Len(sid) >= 1 /\ \A i \in 1..Len(sid) : sid[i] \in Digits

is_valid_stock_id_upto_warrants(stock_id) ==
    IF stock_id = <<>> THEN FALSE
    ELSE LET sid == strip(stock_id) IN
         IF ~AllDigits(sid) THEN FALSE
         ELSE LET sid_int == int(sid) IN
              IF sid_int < 1000 \/ sid_int >= 700000 THEN FALSE
              ELSE TRUE

\* is_valid_stock_id
is_valid_stock_id(stock_id) ==
    IF stock_id = <<>> THEN FALSE
    ELSE LET sid == strip(stock_id) IN
         IF ~AllDigits(sid) THEN FALSE
         ELSE LET sid_int == int(sid) IN
              IF sid_int < 1000 \/ sid_int >= 700000 THEN FALSE
              ELSE 1000 <= sid_int /\ sid_int <= 9999

-----------------------------------------------------------------------------
(* One iteration of the line loop of process_file.  The result is what the *)
(* iteration appends: row holds at most one accepted record, dbg at most   *)
(* one diagnostic.                                                         *)

Nothing == [row |-> <<>>, dbg |-> <<>>]
Accept_with_diagnostic(r) == [row |-> <<r>>, dbg |-> <<r>>]
Accept(r) == [row |-> <<r>>, dbg |-> <<>>]
Reject(d) == [row |-> <<>>, dbg |-> <<d>>]

\* a reason without and with a value formatted into it
Reason(code) == [code |-> code]
ReasonWith(code, value) == [code |-> code, value |-> value]

\* a diagnostic of the two basic scripts
Debug(file, line_no, reason, line_preview, close_raw) ==
    [file |-> file, line_no |-> line_no, reason |-> reason,
     line_preview |-> line_preview, close_raw |-> close_raw]

\* a diagnostic of the filtering script
DebugML(file, line_no, reason, preview) ==
    [file |-> file, line_no |-> line_no, reason |-> reason,
     preview |-> preview]

\* f"stock_id={sid}"
StockIdPreview(sid) == <<"s", "t", "o", "c", "k", "_", "i", "d", "=">> \o sid

is_blank_line(line) == strip(line) = <<>>

\* the test of `if len(line_bytes) == 0: continue`
is_empty_line(line) == Len(line) = 0

validate_byte_level_no_parse_check(sid, val) ==
    IF sid = <<>> THEN Reason("empty_stock_id")
    ELSE IF ~sane_price(val)
         THEN ReasonWith("close_out_of_bounds", val)
    ELSE Reason("ok")

validate_byte_level_price_first(sid, val) ==
    IF val = NONE THEN Reason("close_unparseable")
    ELSE IF sid = <<>> THEN Reason("empty_stock_id")
    ELSE IF ~sane_price(val)
         THEN ReasonWith("close_out_of_bounds", val)
    ELSE Reason("ok")

\* the validation cascade of the two basic scripts (byte_level 180-209,
\* diagnostic 169-198): the reason of the first failing check, or "ok"
validate_byte_level(sid, val) ==
    IF sid = <<>> THEN Reason("empty_stock_id")
    ELSE IF val = NONE THEN Reason("close_unparseable")
    ELSE IF ~sane_price(val)
         THEN ReasonWith("close_out_of_bounds", val)
    ELSE Reason("ok")

\* extract_quotes_byte_level.process_file, body of the for loop
process_line_byte_level(file, date, n, raw_line) ==
    LET line == rstrip(raw_line, LineEnd)
        min_len == BYTE_POS["change_flag"][2]
        preview == decode(Slice(line, 0, 100))
    IN
    IF is_empty_line(line) THEN Nothing
    ELSE IF Len(line) < min_len
         THEN Reject(Debug(file, n, Reason("line_too_short"), preview, <<>>))
    ELSE LET sid == Field(line, BYTE_POS, "stock_id")
             sname == Field(line, BYTE_POS, "stock_name")
             close_raw == Field(line, BYTE_POS, "close_price_raw")
             change_sym == decode(Slice(line, BYTE_POS["change_flag"][1],
                                        BYTE_POS["change_flag"][2]))
             val == parse_9digit_price(close_raw)
             verdict == validate_byte_level(sid, val)
         IN
         IF verdict.code # "ok"
         THEN Reject(Debug(file, n, verdict, preview, close_raw))
         ELSE Accept([date |-> date, stock_id |-> sid,
                      closing_price |-> Fmt4(val),
                      change_flag |-> strip(change_sym),
                      stock_name |-> sname, source_file |-> file,
                      line_no |-> n])

\* what text-mode readlines() gives for one line: the decoded text, with the
\* line ending translated to "\n" (universal newlines)
TextLine(raw_line) ==
    LET t == decode(raw_line) IN
    IF Len(t) >= 2 /\ t[Len(t) - 1] = "\r" /\ t[Len(t)] = "\n"
    THEN SubSeq(t, 1, Len(t) - 2) \o <<"\n">>
    ELSE t

\* extract_quotes_diagnostic.process_file, body of the for loop
process_line_diagnostic(file, date, n, raw_line) ==
    LET raw == TextLine(raw_line)
        line == rstrip(raw, LineEnd)
        min_len == POS["change_flag"][2]
        preview == Slice(raw, 0, 200)
    IN
    IF strip(line) = <<>> THEN Nothing
    ELSE IF Len(line) < min_len
         THEN Reject(Debug(file, n, Reason("padded_short_line"), preview,
                           <<>>))
    ELSE LET sid == strip(Slice(line, POS["stock_id"][1], POS["stock_id"][2]))
             sname == strip(Slice(line, POS["stock_name"][1],
                                  POS["stock_name"][2]))
             close_raw == Slice(line, POS["close_price_raw"][1],
                                POS["close_price_raw"][2])
             change_sym == Slice(line, POS["change_flag"][1],
                                 POS["change_flag"][2])
             val == parse_9digit_price_diagnostic(close_raw)
             verdict == validate_byte_level(sid, val)
         IN
         IF verdict.code # "ok"
         THEN Reject(Debug(file, n, verdict, preview, close_raw))
         ELSE Accept([date |-> date, stock_id |-> sid,
                      closing_price |-> Fmt4(val),
                      change_flag |-> strip(change_sym),
                      stock_name |-> sname, source_file |-> file,
                      line_no |-> n])

\* `x if x and x >= MIN_PRICE else None`
PriceOrNone(x) == IF ~NotPrice(x) /\ PriceLe(MIN_PRICE, x) THEN x ELSE NONE

\* extract_stock_for_ml.process_file, body of the for loop
process_line_ml(file, date, n, raw_line) ==
    LET line == rstrip(raw_line, LineEnd)
        required_len == MaxEnd(BYTE_POS_ML)
    IN
    IF is_empty_line(line) THEN Nothing
    ELSE IF Len(line) < required_len
         THEN Reject(DebugML(file, n, Reason("line_too_short"),
                             decode(Slice(line, 0, 80))))
    ELSE LET sid == Field(line, BYTE_POS_ML, "stock_id")
             open_price ==
                 parse_9digit_price(Field(line, BYTE_POS_ML, "open_price_raw"))
             high_price ==
                 parse_9digit_price(Field(line, BYTE_POS_ML, "high_price_raw"))
             low_price ==
                 parse_9digit_price(Field(line, BYTE_POS_ML, "low_price_raw"))
             close_price ==
                 parse_9digit_price(Field(line, BYTE_POS_ML, "close_price_raw"))
             change_flag == Field(line, BYTE_POS_ML, "change_flag")
             change_amount ==
                 parse_9digit_price(Field(line, BYTE_POS_ML,
                                          "change_amount_raw"))
             volume == parse_volume(Field(line, BYTE_POS_ML, "volume_raw"))
             amount == parse_volume(Field(line, BYTE_POS_ML, "amount_raw"))
         IN
         IF ~is_valid_stock_id(sid)
         THEN Reject(DebugML(file, n, Reason("invalid_stock_id"),
                             StockIdPreview(sid)))
         ELSE IF NotPrice(close_price)
                 \/ ~(PriceLe(MIN_PRICE, close_price)
                      /\ PriceLe(close_price, MAX_PRICE))
         THEN Reject(DebugML(file, n, ReasonWith("invalid_close", close_price),
                             StockIdPreview(sid)))
         ELSE IF NotInt(volume) \/ volume.int < MIN_VOLUME
         THEN Reject(DebugML(file, n, ReasonWith("low_volume", volume),
                             StockIdPreview(sid)))
         ELSE IF NotInt(amount) \/ amount.int < MIN_AMOUNT
         THEN Reject(DebugML(file, n, ReasonWith("low_amount", amount),
                             StockIdPreview(sid)))
         ELSE LET stripped == lstrip(sid, {"0"})
                  sid_normalized == IF stripped = <<>> THEN <<"0">>
                                    ELSE stripped
              IN Accept([date |-> date, stock_id |-> sid_normalized,
                         open_price |-> PriceOrNone(open_price),
                         high_price |-> PriceOrNone(high_price),
                         low_price |-> PriceOrNone(low_price),
                         closing_price |-> close_price,
                         change_flag |-> change_flag,
                         change_amount |-> change_amount,
                         volume |-> volume, amount |-> amount])

process_line(v, file, date, n, raw_line) ==
    CASE v = "byte_level" -> process_line_byte_level(file, date, n, raw_line)
      [] v = "diagnostic" -> process_line_diagnostic(file, date, n, raw_line)
      [] v = "ml" -> process_line_ml(file, date, n, raw_line)

-----------------------------------------------------------------------------
(* Input files: a first line and data lines built on the S38 layout *)

Spaces(n) == Rep(" ", n)

\* the digits of n, zero-padded to the width w of a numeric field
Num(n, w) == zfill(str(n), w)

\* one 107-byte S38 record
MkLine(id, name, close, volume, amount) ==
    id \o name \o Num(395000, 9) \o Num(400000, 9) \o Num(390000, 9)
       \o close \o <<"+">> \o Num(5000, 9) \o Spaces(9) \o volume
       \o Spaces(9) \o amount

AsciiName == <<"A", "B", "C">> \o Spaces(13)

\* a name of two double-byte characters: 16 bytes, 14 characters
WideName == <<"H", "@", "H", "@">> \o Spaces(12)

GoodId == Num(1240, 6)
GoodClose == Num(398000, 9)
GoodVolume == Num(MIN_VOLUME, 9)
GoodAmount == Num(MIN_AMOUNT, 12)

WithId(id) == MkLine(id, AsciiName, GoodClose, GoodVolume, GoodAmount)
WithClose(close) == MkLine(GoodId, AsciiName, close, GoodVolume, GoodAmount)

GoodLine == WithId(GoodId)

\* the lines a file may hold, without line ending
InputLines ==
    << GoodLine,
       SubSeq(GoodLine, 1, 106),
       SubSeq(GoodLine, 1, 59) \o <<"\r">>,
       SubSeq(GoodLine, 1, 58),
       <<>>,
       Spaces(59),
       MkLine(GoodId, WideName, GoodClose, GoodVolume, GoodAmount),
       WithId(Num(0, 6)),
       WithId(Num(10000, 6)),
       WithId(<<"1", "2", "A", "4", " ", " ">>),
       MkLine(Spaces(6), AsciiName, Spaces(9), GoodVolume, GoodAmount),
       WithClose(Spaces(9)),
       WithClose(Num(0, 9)),
       WithClose(Num(100, 9)),
       MkLine(GoodId, AsciiName, Num(99, 9), Num(99, 9), Num(999, 12)),
       MkLine(GoodId, AsciiName, GoodClose, Num(99, 9), Num(999, 12)),
       MkLine(GoodId, AsciiName, GoodClose, GoodVolume, Num(999, 12)),
       <<"2", "0", "2", "0", "0", "4", "2", "0">> >>

\* A line of a file is named by its index in InputLines; Bytes(k) are the
\* bytes readlines() returns for it: every line keeps its "\n".
Bytes(k) == InputLines[k] \o <<"\n">>

\* the first line of a file: a timestamp line, or a well-formed record
Headers == {Len(InputLines), 1}

\* the lines after the first
DataLines == 1..(Len(InputLines) - 1)

\* the dates derive_date_for_file hands to process_file
DateTags == {"20200420"}

Variants == {"byte_level", "diagnostic", "ml"}

\* the files of at most n lines; the empty file has no line at all
Files(n) ==
    {<<>>} \cup
    UNION { { <<h>> \o d : h \in Headers, d \in [1..(k - 1) -> DataLines] }
            : k \in 1..n }

-----------------------------------------------------------------------------
(* main and process_file *)

Init ==
    /\ variant \in Variants
    /\ pc = "main"
    /\ files_found = 0
    /\ fname = 0
    /\ date_tag = ""
    /\ lines_bytes = <<>>
    /\ lineno = 2
    /\ rows = <<>>
    /\ debug_rows = <<>>
    /\ rows0 = 0
    /\ debug0 = 0
    /\ lines_read = 0
    /\ raw_str = <<>>
    /\ close_val = NONE
    /\ parsed_by = "none"
    /\ path_name = <<>>
    /\ year_hint = NoneStr
    /\ readable = TRUE
    /\ head = <<>>
    /\ derived = <<>>
    /\ total_records = 0
    /\ first_batch = TRUE
    /\ out_csv = NoFile
    /\ debug_csv = NoFile
    /\ accepted = <<>>
    /\ run_files = <<>>

\* main hands the next file to process_file, which reads it
OpenFile ==
    /\ pc = "main"
    /\ files_found < MaxFiles
    /\ files_found' = files_found + 1
    /\ fname' = files_found + 1
    /\ \E d \in DateTags : date_tag' = d
    /\ \E f \in Files(MaxLines - lines_read) :
          /\ lines_bytes' = f
          /\ lines_read' = lines_read + Len(f)
    /\ lineno' = 2
    /\ rows0' = Len(rows)
    /\ debug0' = Len(debug_rows)
    /\ pc' = "loop"
    /\ UNCHANGED <<variant, rows, debug_rows>>
    /\ UNCHANGED priceVars
    /\ UNCHANGED dateVars
    /\ UNCHANGED mainVars

FileError_as_line(v, file) ==
    IF v = "ml"
    THEN DebugML(file, 1, ReasonWith("file_error", [exception |-> TRUE]), <<>>)
    ELSE Debug(file, 1, ReasonWith("file_read_error", [exception |-> TRUE]),
               <<>>, <<>>)

\* the diagnostic of the outer except branch of process_file
FileError(v, file) ==
    IF v = "ml"
    THEN DebugML(file, 0, ReasonWith("file_error", [exception |-> TRUE]), <<>>)
    ELSE Debug(file, 0, ReasonWith("file_read_error", [exception |-> TRUE]),
               <<>>, <<>>)

\* main hands the next file to process_file, and opening or reading it raises
OpenFileFails ==
    /\ pc = "main"
    /\ files_found < MaxFiles
    /\ files_found' = files_found + 1
    /\ fname' = files_found + 1
    /\ \E d \in DateTags : date_tag' = d
    /\ lines_bytes' = <<>>
    /\ lineno' = 2
    /\ rows0' = Len(rows)
    /\ debug0' = Len(debug_rows)
    /\ debug_rows' = Append(debug_rows, FileError(variant, files_found + 1))
    /\ UNCHANGED <<variant, pc, rows, lines_read>>
    /\ UNCHANGED priceVars
    /\ UNCHANGED dateVars
    /\ UNCHANGED mainVars

\* process_line tabulated over the inputs of the model, so that each
\* iteration is evaluated once
Outcomes ==
    [v \in Variants, f \in 1..MaxFiles, d \in DateTags, n \in 2..MaxLines,
     k \in DOMAIN InputLines |-> process_line(v, f, d, n, Bytes(k))]

\* one iteration of `for lineno, line_bytes in enumerate(lines_bytes[1:], 2)`
ProcessLine ==
    /\ pc = "loop"
    /\ lineno <= Len(lines_bytes)
    /\ LET out == Outcomes[variant, fname, date_tag, lineno,
                            lines_bytes[lineno]]
       IN /\ rows' = rows \o out.row
          /\ debug_rows' = debug_rows \o out.dbg
    /\ lineno' = lineno + 1
    /\ UNCHANGED <<variant, pc, files_found, fname, date_tag, lines_bytes,
                   rows0, debug0, lines_read>>
    /\ UNCHANGED priceVars
    /\ UNCHANGED dateVars
    /\ UNCHANGED mainVars

\* the loop is exhausted and process_file returns to main
EndFile ==
    /\ pc = "loop"
    /\ lineno > Len(lines_bytes)
    /\ pc' = "main"
    /\ UNCHANGED <<variant, files_found, fname, date_tag, lines_bytes, lineno,
                   rows, debug_rows, rows0, debug0, lines_read>>
    /\ UNCHANGED priceVars
    /\ UNCHANGED dateVars
    /\ UNCHANGED mainVars

\* main leaves the loop over the files
Finish ==
    /\ pc = "main"
    /\ pc' = "done"
    /\ UNCHANGED <<variant, files_found, fname, date_tag, lines_bytes, lineno,
                   rows, debug_rows, rows0, debug0, lines_read>>
    /\ UNCHANGED priceVars
    /\ UNCHANGED dateVars
    /\ UNCHANGED mainVars

Next == OpenFile \/ OpenFileFails \/ ProcessLine \/ EndFile \/ Finish

Spec == Init /\ [][Next]_vars

-----------------------------------------------------------------------------
(* The decoder on its own: the argument is typed character by character    *)
(* and then handed to one of the two parse_9digit_price implementations.   *)

\* characters an argument of parse_9digit_price is made of
RawAlphabet == {"0", "7", " "}

InitPrice ==
    /\ raw_str \in {NoneStr, <<>>}
    /\ close_val = NONE
    /\ parsed_by = "none"
    /\ variant = "byte_level"
    /\ pc = "done"
    /\ files_found = 0
    /\ fname = 0
    /\ date_tag = ""
    /\ lines_bytes = <<>>
    /\ lineno = 0
    /\ rows = <<>>
    /\ debug_rows = <<>>
    /\ rows0 = 0
    /\ debug0 = 0
    /\ lines_read = 0
    /\ path_name = <<>>
    /\ year_hint = NoneStr
    /\ readable = TRUE
    /\ head = <<>>
    /\ derived = <<>>
    /\ total_records = 0
    /\ first_batch = TRUE
    /\ out_csv = NoFile
    /\ debug_csv = NoFile
    /\ accepted = <<>>
    /\ run_files = <<>>

TypeChar ==
    /\ parsed_by = "none"
    /\ raw_str # NoneStr
    /\ Len(raw_str) < MaxRawLen
    /\ \E c \in RawAlphabet : raw_str' = Append(raw_str, c)
    /\ UNCHANGED <<close_val, parsed_by>>
    /\ UNCHANGED fileVars
    /\ UNCHANGED dateVars
    /\ UNCHANGED mainVars

ParsePrice ==
    /\ parsed_by = "none"
    /\ close_val' = parse_9digit_price(raw_str)
    /\ parsed_by' = "byte_level"
    /\ UNCHANGED raw_str
    /\ UNCHANGED fileVars
    /\ UNCHANGED dateVars
    /\ UNCHANGED mainVars

ParsePriceDiagnostic ==
    /\ parsed_by = "none"
    /\ close_val' = parse_9digit_price_diagnostic(raw_str)
    /\ parsed_by' = "diagnostic"
    /\ UNCHANGED raw_str
    /\ UNCHANGED fileVars
    /\ UNCHANGED dateVars
    /\ UNCHANGED mainVars

NextPrice == TypeChar \/ ParsePrice \/ ParsePriceDiagnostic

SpecPrice == InitPrice /\ [][NextPrice]_vars

-----------------------------------------------------------------------------
(* derive_date_for_file on its own: a file name, a year hint and the lines  *)
(* of the file are chosen, then one of the implementations resolves them.  *)

\* most lines of the file derive_date_for_file is given
MaxHeadLines == 4

NonZeroDigits == Digits \ {"0"}

\* `if x` for a string or None
Truthy(x) == x # NoneStr /\ x # <<>>

\* date_header_re.search(line): group(1) of the leftmost match of (\d{8}),
\* or None
date_header_re(line) ==
    LET starts == {i \in 1..(Len(line) - 7) :
                      \A j \in 0..7 : line[i + j] \in Digits}
    IN IF starts = {} THEN NoneStr
       ELSE LET i == CHOOSE a \in starts : \A b \in starts : a <= b
            IN SubSeq(line, i, i + 7)

\* re.search(r'\((\d{3,8})\)', name): group(1) of the leftmost match, or None
tag_search(name) ==
    LET hits == {c \in (1..Len(name)) \X (3..8) :
                    /\ c[1] + c[2] + 1 <= Len(name)
                    /\ name[c[1]] = "("
                    /\ \A j \in 1..c[2] : name[c[1] + j] \in Digits
                    /\ name[c[1] + c[2] + 1] = ")"}
    IN IF hits = {} THEN NoneStr
       ELSE LET c == CHOOSE a \in hits : \A b \in hits : a[1] <= b[1]
            IN SubSeq(name, c[1] + 1, c[1] + c[2])

\* re.match(r'^\d{4}$', year_hint): `$` also matches before a final "\n"
year_match(h) ==
    /\ Len(h) \in {4, 5}
    /\ \A i \in 1..4 : h[i] \in Digits
    /\ Len(h) = 5 => h[5] = "\n"

IsLeap(y) == y % 4 = 0 /\ (y % 100 # 0 \/ y % 400 = 0)

DaysIn(y, m) ==
    IF m = 2 THEN (IF IsLeap(y) THEN 29 ELSE 28)
    ELSE IF m \in {4, 6, 9, 11} THEN 30 ELSE 31

\* the lengths %m can take at the head of r, in the order its pattern
\* 1[0-2]|0[1-9]|[1-9] tries them
MonthLens(r) ==
    (IF Len(r) >= 2 /\ r[1] = "1" /\ r[2] \in {"0", "1", "2"}
     THEN <<2>> ELSE <<>>)
    \o (IF Len(r) >= 2 /\ r[1] = "0" /\ r[2] \in NonZeroDigits
        THEN <<2>> ELSE <<>>)
    \o (IF Len(r) >= 1 /\ r[1] \in NonZeroDigits THEN <<1>> ELSE <<>>)

\* the length %d takes at the head of r by its pattern
\* 3[01]|[12]\d|0[1-9]|[1-9]| [1-9], or 0 when it does not match
DayLen(r) ==
    IF Len(r) >= 2 /\ r[1] = "3" /\ r[2] \in {"0", "1"} THEN 2
    ELSE IF Len(r) >= 2 /\ r[1] \in {"1", "2"} /\ r[2] \in Digits THEN 2
    ELSE IF Len(r) >= 2 /\ r[1] = "0" /\ r[2] \in NonZeroDigits THEN 2
    ELSE IF Len(r) >= 1 /\ r[1] \in NonZeroDigits THEN 1
    ELSE IF Len(r) >= 2 /\ r[1] = " " /\ r[2] \in NonZeroDigits THEN 2
    ELSE 0

strptime_format_only(s) ==
    Len(s) = 8 /\ \A i \in 1..8 : s[i] \in Digits

\* datetime.strptime(s, '%Y%m%d') returns (TRUE) or raises ValueError
\* (FALSE): the pattern is matched at the start of s, nothing may remain
\* after the match, and the date must exist
strptime(s) ==
    IF Len(s) < 4 \/ \E i \in 1..4 : s[i] \notin Digits THEN FALSE
    ELSE LET r == SubSeq(s, 5, Len(s))
             ms == MonthLens(r)
             fits == {k \in 1..Len(ms) :
                         DayLen(SubSeq(r, ms[k] + 1, Len(r))) > 0}
         IN IF fits = {} THEN FALSE
            ELSE LET k == CHOOSE a \in fits : \A b \in fits : a <= b
                     rest == SubSeq(r, ms[k] + 1, Len(r))
                     y == int(SubSeq(s, 1, 4))
                     m == int(SubSeq(r, 1, ms[k]))
                     d == int(OnlyDigits(SubSeq(rest, 1, DayLen(rest))))
                 IN /\ ms[k] + DayLen(rest) = Len(r)
                    /\ y >= 1
                    /\ d <= DaysIn(y, m)

\* the lines a file may start with, without line ending
HeadLines ==
    << <<"2", "0", "2", "0", "0", "4", "2", "0">>,
       <<"A", "1", "2", "0", "2", "0", "0", "4", "2", "0">>,
       <<>>,
       <<"H", "@", " ", "1", "2", "4", "0">>,
       <<"2", "0", "2", "0", "1", "3", "0", "1", " ",
         "2", "0", "2", "0", "0", "4", "2", "1">> >>

\* A line of the file is named by its index in HeadLines; HeadBytes(k) are
\* its bytes, line ending included.
HeadBytes(k) == HeadLines[k] \o <<"\n">>

\* the lines the up to 3 calls of f.readline() return, as text
first_lines(lines) ==
    [i \in 1..Min(3, Len(lines)) |-> TextLine(HeadBytes(lines[i]))]

TagName(tag) == <<"S", "(">> \o tag \o <<")">>

\* the file names
PathNames ==
    { <<"S">>,
      TagName(<<"4", "2", "0">>),
      TagName(<<"0", "4", "2", "0">>),
      TagName(<<"1", "3", "0", "1">>),
      TagName(<<"2", "0", "2", "0", "0", "4", "2", "0">>),
      TagName(<<"2", "0", "2", "0", "1", "3", "0", "1">>),
      TagName(<<"1", "2", "3", "4", "5">>),
      <<"S", "(", "1", "2", ")", "(", "0", "4", "2", "1", ")">> }

\* the year hints: absent, the name of a year folder, and another string
YearHints ==
    { NoneStr,
      <<"2", "0", "2", "0">>,
      <<"2", "0", "2">> }

JAN_FIRST == <<"0", "1", "0", "1">>
EPOCH == <<"1", "9", "7", "0", "0", "1", "0", "1">>

derive_date_for_file_four_lines(can_open, lines, name, hint) ==
    LET text == [i \in 1..Min(4, Len(lines)) |-> TextLine(HeadBytes(lines[i]))]
        found == {i \in 1..Len(text) :
                     can_open /\ date_header_re(text[i]) # NoneStr}
        m == tag_search(name)
        tag == IF m = NoneStr THEN <<>> ELSE zfill(m, 4)
        usable == Truthy(hint) /\ year_match(hint)
    IN
    IF found # {}
    THEN date_header_re(text[CHOOSE i \in found : \A j \in found : i <= j])
    ELSE IF m # NoneStr /\ Len(tag) = 4 /\ usable THEN hint \o tag
    ELSE IF m # NoneStr /\ Len(tag) = 8 THEN tag
    ELSE IF usable THEN hint \o JAN_FIRST
    ELSE EPOCH

derive_date_for_file_any_tag(can_open, lines, name, hint) ==
    LET text == first_lines(lines)
        found == {i \in 1..Len(text) :
                     can_open /\ date_header_re(text[i]) # NoneStr}
        m == tag_search(name)
        tag == IF m = NoneStr THEN <<>> ELSE zfill(m, 4)
        usable == Truthy(hint) /\ year_match(hint)
    IN
    IF found # {}
    THEN date_header_re(text[CHOOSE i \in found : \A j \in found : i <= j])
    ELSE IF m # NoneStr /\ Len(tag) = 4 /\ usable THEN hint \o tag
    ELSE IF m # NoneStr THEN tag
    ELSE IF usable THEN hint \o JAN_FIRST
    ELSE EPOCH

\* derive_date_for_file of extract_quotes_byte_level.py and of
\* extract_quotes_diagnostic.py (the same code); can_open: path.open and the
\* reads succeed
derive_date_for_file(can_open, lines, name, hint) ==
    LET text == first_lines(lines)
        found == {i \in 1..Len(text) :
                     can_open /\ date_header_re(text[i]) # NoneStr}
        m == tag_search(name)
        tag == IF m = NoneStr THEN <<>> ELSE zfill(m, 4)
        usable == Truthy(hint) /\ year_match(hint)
    IN
    IF found # {}
    THEN date_header_re(text[CHOOSE i \in found : \A j \in found : i <= j])
    ELSE IF m # NoneStr /\ Len(tag) = 4 /\ usable THEN hint \o tag
    ELSE IF m # NoneStr /\ Len(tag) = 8 THEN tag
    ELSE IF usable THEN hint \o JAN_FIRST
    ELSE EPOCH

\* derive_date_for_file of extract_stock_for_ml.py
derive_date_for_file_ml(can_open, lines, name, hint) ==
    LET text == first_lines(lines)
        found == {i \in 1..Len(text) :
                     /\ can_open
                     /\ date_header_re(text[i]) # NoneStr
                     /\ strptime(date_header_re(text[i]))}
        m == tag_search(name)
        tag == IF m = NoneStr THEN <<>> ELSE zfill(m, 4)
    IN
    IF found # {}
    THEN date_header_re(text[CHOOSE i \in found : \A j \in found : i <= j])
    ELSE IF m # NoneStr /\ Len(tag) = 4 /\ Truthy(hint)
              /\ strptime(hint \o tag)
         THEN hint \o tag
    ELSE IF m # NoneStr /\ ~(Len(tag) = 4 /\ Truthy(hint)) /\ Len(tag) = 8
              /\ strptime(tag)
         THEN tag
    ELSE IF Truthy(hint) THEN hint \o JAN_FIRST
    ELSE EPOCH

InitDate ==
    /\ variant \in Variants
    /\ pc = "derive"
    /\ path_name \in PathNames
    /\ year_hint \in YearHints
    /\ readable \in BOOLEAN
    /\ head = <<>>
    /\ derived = <<>>
    /\ files_found = 0
    /\ fname = 0
    /\ date_tag = ""
    /\ lines_bytes = <<>>
    /\ lineno = 0
    /\ rows = <<>>
    /\ debug_rows = <<>>
    /\ rows0 = 0
    /\ debug0 = 0
    /\ lines_read = 0
    /\ raw_str = <<>>
    /\ close_val = NONE
    /\ parsed_by = "none"
    /\ total_records = 0
    /\ first_batch = TRUE
    /\ out_csv = NoFile
    /\ debug_csv = NoFile
    /\ accepted = <<>>
    /\ run_files = <<>>

\* the file has one more line
AddHeadLine ==
    /\ pc = "derive"
    /\ readable
    /\ Len(head) < MaxHeadLines
    /\ \E k \in DOMAIN HeadLines : head' = Append(head, k)
    /\ UNCHANGED <<path_name, year_hint, readable, derived>>
    /\ UNCHANGED fileVars
    /\ UNCHANGED priceVars
    /\ UNCHANGED mainVars

\* date_tag = derive_date_for_file(f, year_hint=year_hint)
DeriveDate ==
    /\ pc = "derive"
    /\ derived' = IF variant = "ml"
                  THEN derive_date_for_file_ml(readable, head, path_name,
                                               year_hint)
                  ELSE derive_date_for_file(readable, head, path_name,
                                            year_hint)
    /\ pc' = "derived"
    /\ UNCHANGED <<path_name, year_hint, readable, head>>
    /\ UNCHANGED <<variant, files_found, fname, date_tag, lines_bytes, lineno,
                   rows, debug_rows, rows0, debug0, lines_read>>
    /\ UNCHANGED priceVars
    /\ UNCHANGED mainVars

NextDate == AddHeadLine \/ DeriveDate

SpecDate == InitDate /\ [][NextDate]_vars

-----------------------------------------------------------------------------
(* main on its own: process_file is taken by its effect on the two buffers *)
(* (some records and some diagnostics appended), and the files main writes *)
(* are followed.  A record is named <<f, k>>: the k-th record of the f-th  *)
(* file; a diagnostic likewise.                                            *)

\* BATCH_SIZE, scaled from 50000 to the sizes of the files of the model
BATCH_SIZE == 3

\* most records, and most diagnostics, process_file appends for one file
MaxPerFile == 3

\* the header line of a CSV file
HeaderRow == <<0, 0>>

\* what process_file appends for file f when it yields n items
Items(f, n) == [k \in 1..n |-> <<f, k>>]

batch_is_full_strict(batch) == Len(batch) > BATCH_SIZE

\* `if len(batch_rows) >= BATCH_SIZE`
batch_is_full(batch) == Len(batch) >= BATCH_SIZE

write_batch_to_csv_overwrite(batch, content, mode, header) ==
    IF batch = <<>> THEN content
    ELSE (IF header THEN <<HeaderRow>> ELSE <<>>) \o batch

\* write_batch_to_csv(rows, output_path, mode, header): the content of the
\* file after the call
write_batch_to_csv(batch, content, mode, header) ==
    IF batch = <<>> THEN content
    ELSE (IF mode = "w" \/ content = NoFile THEN <<>> ELSE content)
         \o (IF header THEN <<HeaderRow>> ELSE <<>>)
         \o batch

\* a DataFrame or DictWriter written with mode 'w': header, then the rows
write_csv(data) == <<HeaderRow>> \o data

\* b comes before a in the order of sort_values
Before(a, b) == a[1] < b[1] \/ (a[1] = b[1] /\ a[2] < b[2])

\* compute_next_day_price_efficient: the file is read back, sorted and
\* written over; file order stands for date order
compute_next_day_price_efficient(content) ==
    LET data == Tail(content)
        Rank(i) == Cardinality({j \in DOMAIN data : Before(data[j], data[i])})
    IN write_csv([r \in DOMAIN data |->
                     data[CHOOSE i \in DOMAIN data : Rank(i) = r - 1]])

InitMain ==
    /\ variant \in Variants
    /\ pc = "files"
    /\ files_found = 0
    /\ rows = <<>>
    /\ debug_rows = <<>>
    /\ total_records = 0
    /\ first_batch = TRUE
    /\ out_csv = NoFile
    /\ debug_csv = NoFile
    /\ accepted = <<>>
    /\ run_files = <<>>
    /\ fname = 0
    /\ date_tag = ""
    /\ lines_bytes = <<>>
    /\ lineno = 0
    /\ rows0 = 0
    /\ debug0 = 0
    /\ lines_read = 0
    /\ raw_str = <<>>
    /\ close_val = NONE
    /\ parsed_by = "none"
    /\ path_name = <<>>
    /\ year_hint = NoneStr
    /\ readable = TRUE
    /\ head = <<>>
    /\ derived = <<>>

\* one iteration of `for f in files` of the filtering script: process_file,
\* then the flush of a full batch
MainFileML ==
    /\ variant = "ml"
    /\ pc = "files"
    /\ files_found < MaxFiles
    /\ files_found' = files_found + 1
    /\ \E a \in 0..MaxPerFile, d \in 0..MaxPerFile :
          LET batch_rows == rows \o Items(files_found + 1, a) IN
          /\ accepted' = accepted \o Items(files_found + 1, a)
          /\ debug_rows' = debug_rows \o Items(files_found + 1, d)
          /\ IF batch_is_full(batch_rows)
             THEN /\ out_csv' = write_batch_to_csv(
                                    batch_rows, out_csv,
                                    IF first_batch THEN "w" ELSE "a",
                                    first_batch)
                  /\ total_records' = total_records + Len(batch_rows)
                  /\ rows' = <<>>
                  /\ first_batch' = FALSE
             ELSE /\ rows' = batch_rows
                  /\ UNCHANGED <<out_csv, total_records, first_batch>>
    /\ UNCHANGED <<variant, pc, debug_csv, run_files>>
    /\ UNCHANGED <<fname, date_tag, lines_bytes, lineno, rows0, debug0,
                   lines_read>>
    /\ UNCHANGED priceVars
    /\ UNCHANGED dateVars

\* the filtering script leaves the loops and writes the last batch
MainLastBatchML ==
    /\ variant = "ml"
    /\ pc = "files"
    /\ IF rows # <<>>
       THEN /\ out_csv' = write_batch_to_csv(rows, out_csv,
                                             IF first_batch THEN "w" ELSE "a",
                                             first_batch)
            /\ total_records' = total_records + Len(rows)
       ELSE UNCHANGED <<out_csv, total_records>>
    /\ pc' = "flushed"
    /\ UNCHANGED <<variant, files_found, rows, debug_rows, first_batch,
                   debug_csv, accepted, run_files>>
    /\ UNCHANGED <<fname, date_tag, lines_bytes, lineno, rows0, debug0,
                   lines_read>>
    /\ UNCHANGED priceVars
    /\ UNCHANGED dateVars

\* the filtering script: `if total_records == 0: sys.exit(1)`
MainNoRecordsML ==
    /\ variant = "ml"
    /\ pc = "flushed"
    /\ total_records = 0
    /\ pc' = "exit"
    /\ UNCHANGED <<variant, files_found, rows, debug_rows>>
    /\ UNCHANGED mainVars
    /\ UNCHANGED <<fname, date_tag, lines_bytes, lineno, rows0, debug0,
                   lines_read>>
    /\ UNCHANGED priceVars
    /\ UNCHANGED dateVars

\* the filtering script: the output is post-processed, then the diagnostics
\* are written
MainFinishML ==
    /\ variant = "ml"
    /\ pc = "flushed"
    /\ total_records # 0
    /\ out_csv' = compute_next_day_price_efficient(out_csv)
    /\ debug_csv' = IF debug_rows # <<>> THEN write_csv(debug_rows)
                    ELSE debug_csv
    /\ pc' = "done"
    /\ UNCHANGED <<variant, files_found, rows, debug_rows, total_records,
                   first_batch, accepted, run_files>>
    /\ UNCHANGED <<fname, date_tag, lines_bytes, lineno, rows0, debug0,
                   lines_read>>
    /\ UNCHANGED priceVars
    /\ UNCHANGED dateVars

\* one iteration of `for i, f in enumerate(files)` of a basic script
MainFileBasic ==
    /\ variant # "ml"
    /\ pc = "files"
    /\ files_found < MaxFiles
    /\ files_found' = files_found + 1
    /\ \E a \in 0..MaxPerFile, d \in 0..MaxPerFile :
          /\ rows' = rows \o Items(files_found + 1, a)
          /\ accepted' = accepted \o Items(files_found + 1, a)
          /\ debug_rows' = debug_rows \o Items(files_found + 1, d)
    /\ UNCHANGED <<variant, pc, total_records, first_batch, out_csv,
                   debug_csv, run_files>>
    /\ UNCHANGED <<fname, date_tag, lines_bytes, lineno, rows0, debug0,
                   lines_read>>
    /\ UNCHANGED priceVars
    /\ UNCHANGED dateVars

\* a basic script: `if files_found == 0: sys.exit(0)`
MainNoFilesBasic ==
    /\ variant # "ml"
    /\ pc = "files"
    /\ files_found = 0
    /\ pc' = "exit"
    /\ UNCHANGED <<variant, files_found, rows, debug_rows>>
    /\ UNCHANGED mainVars
    /\ UNCHANGED <<fname, date_tag, lines_bytes, lineno, rows0, debug0,
                   lines_read>>
    /\ UNCHANGED priceVars
    /\ UNCHANGED dateVars

\* a basic script writes the main CSV, then the debug CSV
MainWriteBasic ==
    /\ variant # "ml"
    /\ pc = "files"
    /\ files_found # 0
    /\ out_csv' = write_csv(rows)
    /\ debug_csv' = write_csv(debug_rows)
    /\ pc' = "done"
    /\ UNCHANGED <<variant, files_found, rows, debug_rows, total_records,
                   first_batch, accepted, run_files>>
    /\ UNCHANGED <<fname, date_tag, lines_bytes, lineno, rows0, debug0,
                   lines_read>>
    /\ UNCHANGED priceVars
    /\ UNCHANGED dateVars

NextMain ==
    \/ MainFileML
    \/ MainLastBatchML
    \/ MainNoRecordsML
    \/ MainFinishML
    \/ MainFileBasic
    \/ MainNoFilesBasic
    \/ MainWriteBasic

SpecMain == InitMain /\ [][NextMain]_vars

-----------------------------------------------------------------------------
(* Runs over two files in either order: the files of run_files are handed *)
(* to process_file one after the other, as main does with its sorted list, *)
(* and a call of process_file is one step.                                 *)

\* the data lines of the files of these runs: a well-formed record, a line
\* below the minimum length, a line of spaces, a record with closing price 0
OrderLines == {1, 4, 6, 13}

\* the files of at most n lines of these runs
OrderFiles(n) ==
    {<<>>} \cup
    UNION { { <<Len(InputLines)>> \o d : d \in [1..(k - 1) -> OrderLines] }
            : k \in 1..n }

\* what main hands to process_file for one file, and whether it can be read
RunFile(name, date, can_read, lines) ==
    [name |-> name, date |-> date, readable |-> can_read, bytes |-> lines]

\* the pairs of files of the model: names 1 and 2
RunFiles ==
    LET Named(name) ==
            { RunFile(name, d, TRUE, f) :
                  d \in DateTags, f \in OrderFiles(MaxLines) }
            \cup { RunFile(name, d, FALSE, <<>>) : d \in DateTags }
    IN { <<a, b>> : a \in Named(1), b \in Named(2) }
       \cup { <<b, a>> : a \in Named(1), b \in Named(2) }

\* the buffers as pairs
Buffers(buf, dbg_buf) == [rows |-> buf, debug_rows |-> dbg_buf]

\* the iterations of the line loop from line n on
RECURSIVE process_lines(_, _, _, _, _, _)
process_lines(v, file, date, lines, n, out) ==
    IF n > Len(lines) THEN out
    ELSE LET o == Outcomes[v, file, date, n, lines[n]]
         IN process_lines(v, file, date, lines, n + 1,
                          Buffers(out.rows \o o.row, out.debug_rows \o o.dbg))

\* the identifiers of the records of a buffer
IdsIn(buf) == {buf[i].stock_id : i \in DOMAIN buf}

RECURSIVE process_lines_once_per_id(_, _, _, _, _, _)
process_lines_once_per_id(v, file, date, lines, n, out) ==
    IF n > Len(lines) THEN out
    ELSE LET o == Outcomes[v, file, date, n, lines[n]]
             seen == o.row # <<>> /\ o.row[1].stock_id \in IdsIn(out.rows)
         IN process_lines_once_per_id(
                v, file, date, lines, n + 1,
                Buffers(IF seen THEN out.rows ELSE out.rows \o o.row,
                        out.debug_rows \o o.dbg))

process_file_once_per_id(v, file, date, can_read, lines, buf, dbg_buf) ==
    IF ~can_read
    THEN Buffers(buf, Append(dbg_buf, FileError(v, file)))
    ELSE process_lines_once_per_id(v, file, date, lines, 2,
                                   Buffers(buf, dbg_buf))

\* process_file(path, date_tag, rows, debug_rows): the two buffers after the
\* call
process_file(v, file, date, can_read, lines, buf, dbg_buf) ==
    IF ~can_read
    THEN Buffers(buf, Append(dbg_buf, FileError(v, file)))
    ELSE process_lines(v, file, date, lines, 2, Buffers(buf, dbg_buf))

InitOrder ==
    /\ variant \in Variants
    /\ run_files \in RunFiles
    /\ pc = "main"
    /\ files_found = 0
    /\ fname = 0
    /\ date_tag = ""
    /\ lines_bytes = <<>>
    /\ lineno = 2
    /\ rows = <<>>
    /\ debug_rows = <<>>
    /\ rows0 = 0
    /\ debug0 = 0
    /\ lines_read = 0
    /\ raw_str = <<>>
    /\ close_val = NONE
    /\ parsed_by = "none"
    /\ path_name = <<>>
    /\ year_hint = NoneStr
    /\ readable = TRUE
    /\ head = <<>>
    /\ derived = <<>>
    /\ total_records = 0
    /\ first_batch = TRUE
    /\ out_csv = NoFile
    /\ debug_csv = NoFile
    /\ accepted = <<>>

\* main hands the next file of the run to process_file, which returns
ProcessFile ==
    /\ pc = "main"
    /\ files_found < Len(run_files)
    /\ LET f == run_files[files_found + 1]
           out == process_file(variant, f.name, f.date, f.readable, f.bytes,
                               rows, debug_rows)
       IN /\ fname' = f.name
          /\ date_tag' = f.date
          /\ lines_bytes' = f.bytes
          /\ lineno' = IF f.readable /\ Len(f.bytes) >= 2
                       THEN Len(f.bytes) + 1 ELSE 2
          /\ rows' = out.rows
          /\ debug_rows' = out.debug_rows
          /\ lines_read' = lines_read + Len(f.bytes)
    /\ files_found' = files_found + 1
    /\ rows0' = Len(rows)
    /\ debug0' = Len(debug_rows)
    /\ UNCHANGED <<variant, pc>>
    /\ UNCHANGED priceVars
    /\ UNCHANGED dateVars
    /\ UNCHANGED mainVars

\* main leaves the loop over the files of the run
FinishOrder ==
    /\ pc = "main"
    /\ files_found = Len(run_files)
    /\ pc' = "done"
    /\ UNCHANGED <<variant, files_found, fname, date_tag, lines_bytes, lineno,
                   rows, debug_rows, rows0, debug0, lines_read>>
    /\ UNCHANGED priceVars
    /\ UNCHANGED dateVars
    /\ UNCHANGED mainVars

NextOrder == ProcessFile \/ FinishOrder

SpecOrder == InitOrder /\ [][NextOrder]_vars

-----------------------------------------------------------------------------
(* Claims about parse_9digit_price, checked under SpecPrice *)

NoDigit(raw) == raw = NoneStr \/ \A i \in 1..Len(raw) : raw[i] \notin Digits

\* the number written by the rightmost k digit characters of s, the last of
\* them weighing w, read from the right without removing anything
RECURSIVE RightmostDigitsValue(_, _, _)
RightmostDigitsValue(s, k, w) ==
    IF Len(s) = 0 \/ k = 0 THEN 0
    ELSE IF s[Len(s)] \in Digits
         THEN DigitVal(s[Len(s)]) * w
              + RightmostDigitsValue(SubSeq(s, 1, Len(s) - 1), k - 1,
                                     IF k = 1 THEN w ELSE w * 10)
         ELSE RightmostDigitsValue(SubSeq(s, 1, Len(s) - 1), k, w)

\* C8: for every argument with at least one digit, either parse_9digit_price
\* returns, in ten-thousandths, the integer written by the rightmost 9 digit
\* characters of the argument (fewer than 9 digits read as left-padded with
\* zeros); the other characters and the digits further left have no effect.
C8_Rightmost9Digits ==
    (parsed_by # "none" /\ ~NoDigit(raw_str)) =>
        /\ close_val # NONE
        /\ close_val.whole * 10000 + close_val.frac
               = RightmostDigitsValue(raw_str, 9, 1)

C8_Witness ==
    /\ parsed_by = "byte_level"
    /\ raw_str = <<"7", "0", "0", "0", "0", "7", "0", "0", "0", "7">>
    /\ close_val = Price(7, 7)

\* C9: for every 9-digit string d, the whole part and the 4-digit fraction
\* parse_9digit_price decodes from d, re-encoded as whole*10000 + fraction
\* and zero-padded to 9 digits, give back d.
C9_RoundTrip ==
    (/\ parsed_by # "none"
     /\ raw_str # NoneStr
     /\ Len(raw_str) = 9
     /\ \A i \in 1..9 : raw_str[i] \in Digits) =>
        /\ close_val # NONE
        /\ close_val.frac < 10000
        /\ zfill(str(close_val.whole * 10000 + close_val.frac), 9) = raw_str

C9_Witness ==
    /\ parsed_by = "byte_level"
    /\ raw_str = <<"0", "7", "0", "0", "7", "7", "0", "0", "7">>
    /\ close_val = Price(7007, 7007)

\* C10: for every argument without a digit character (None, empty, spaces)
\* either parse_9digit_price returns None, never the number zero, and for
\* every argument with a digit it returns a number.
C10_NoDigitIsNone ==
    parsed_by # "none" =>
        /\ NoDigit(raw_str) => close_val = NONE
        /\ ~NoDigit(raw_str) =>
              /\ close_val # NONE
              /\ close_val.whole \in Nat
              /\ close_val.frac \in Nat

C10_Witness ==
    /\ parsed_by = "byte_level"
    /\ raw_str = <<" ", " ", " ">>
    /\ close_val = NONE

-----------------------------------------------------------------------------
(* Claims about process_file, checked under Spec.  What a claim says of a  *)
(* line is stated here on the line itself, apart from process_line.        *)

\* the layout a variant slices with
LayoutOf(v) ==
    CASE v = "byte_level" -> BYTE_POS [] v = "diagnostic" -> POS
      [] v = "ml" -> BYTE_POS_ML

\* line k without its line ending: bytes in the byte-offset variants,
\* characters in the character-offset variant
LineOf(v, k) ==
    IF v = "diagnostic" THEN rstrip(TextLine(Bytes(k)), LineEnd)
    ELSE rstrip(Bytes(k), LineEnd)

\* line k holds something besides its line ending
NonEmpty(k) == \E i \in 1..Len(Bytes(k)) : Bytes(k)[i] \notin LineEnd

\* line k holds something besides white space
NotBlank(k) == \E i \in 1..Len(Bytes(k)) : Bytes(k)[i] \notin Whitespace

\* the trimmed text of field f of line k
FieldOf(v, k, f) ==
    LET l == LineOf(v, k)
        part == Slice(l, LayoutOf(v)[f][1], LayoutOf(v)[f][2])
    IN IF v = "diagnostic" THEN strip(part) ELSE strip(decode(part))

\* the checks of the validator, each on its own
TooShort(v, k) == Len(LineOf(v, k)) < MaxEnd(LayoutOf(v))

CloseFieldNoDigit(v, k) == NoDigit(FieldOf(v, k, "close_price_raw"))

\* the closing price of line k in ten-thousandths, for a field with a digit
CloseTenThousandths(v, k) ==
    RightmostDigitsValue(FieldOf(v, k, "close_price_raw"), 9, 1)

\* the closing price of line k as the pair the decoder returns
ClosePrice(v, k) ==
    Price(CloseTenThousandths(v, k) \div 10000,
          CloseTenThousandths(v, k) % 10000)

\* MIN_PRICE <= price <= MAX_PRICE, in ten-thousandths (MAX_PRICE is 10^10,
\* above every 9-digit number)
CloseInBounds(v, k) == CloseTenThousandths(v, k) >= 100

\* the number a string of digits writes, read from the left
RECURSIVE Horner(_, _)
Horner(t, acc) ==
    IF Len(t) = 0 THEN acc
    ELSE Horner(Tail(t), acc * 10 + DigitVal(Head(t)))

\* the number written by the digits of field f of line k
NumberOf(v, k, f) ==
    Horner(SelectSeq(FieldOf(v, k, f), LAMBDA c : c \in Digits), 0)

BadIdentifier(v, k) ==
    LET sid == FieldOf(v, k, "stock_id") IN
    IF v = "ml"
    THEN \/ sid = <<>>
         \/ \E i \in 1..Len(sid) : sid[i] \notin Digits
         \/ NumberOf(v, k, "stock_id") < 1000
         \/ NumberOf(v, k, "stock_id") > 9999
    ELSE sid = <<>>

LowVolume(v, k) ==
    v = "ml" /\ (NoDigit(FieldOf(v, k, "volume_raw"))
                 \/ NumberOf(v, k, "volume_raw") < 100)

LowAmount(v, k) ==
    v = "ml" /\ (NoDigit(FieldOf(v, k, "amount_raw"))
                 \/ NumberOf(v, k, "amount_raw") < 1000)

\* the reason codes each variant gives to the checks
LengthCode(v) == IF v = "diagnostic" THEN "padded_short_line"
                 ELSE "line_too_short"
IdentifierCode(v) == IF v = "ml" THEN "invalid_stock_id" ELSE "empty_stock_id"
ParseCode(v) == IF v = "ml" THEN "invalid_close" ELSE "close_unparseable"
BoundsCode(v) == IF v = "ml" THEN "invalid_close" ELSE "close_out_of_bounds"

\* the reason code of the earliest failing check, in the order minimum
\* length, identifier, closing-price parseability, closing-price bounds,
\* minimum volume, minimum amount; "ok" when no check fails.  (Field
\* extraction never fails: slicing clamps and decoding replaces.)
EarliestFailure(v, k) ==
    IF TooShort(v, k) THEN LengthCode(v)
    ELSE IF BadIdentifier(v, k) THEN IdentifierCode(v)
    ELSE IF CloseFieldNoDigit(v, k) THEN ParseCode(v)
    ELSE IF ~CloseInBounds(v, k) THEN BoundsCode(v)
    ELSE IF LowVolume(v, k) THEN "low_volume"
    ELSE IF LowAmount(v, k) THEN "low_amount"
    ELSE "ok"

\* the facts above about every line of the model, evaluated once
LineFacts ==
    [v \in Variants, k \in DOMAIN InputLines |->
        [nonEmpty |-> NonEmpty(k),
         counted |-> IF v = "diagnostic" THEN NotBlank(k) ELSE NonEmpty(k),
         tooShort |-> TooShort(v, k),
         badIdentifier |-> BadIdentifier(v, k),
         closeNoDigit |-> CloseFieldNoDigit(v, k),
         closeInBounds |-> CloseInBounds(v, k),
         closePrice |-> ClosePrice(v, k),
         earliestFailure |-> EarliestFailure(v, k),
         stock_id |-> FieldOf(v, k, "stock_id")]]

\* the facts about the line the loop is at, and about line i of the file
Here == LineFacts[variant, lines_bytes[lineno]]
At(i) == LineFacts[variant, lines_bytes[i]]

\* process_file is about to run an iteration of its loop
AtLine == pc = "loop" /\ lineno <= Len(lines_bytes)

\* what the step from this state appends
NoOutcome == rows' = rows /\ debug_rows' = debug_rows
OneRow ==
    /\ debug_rows' = debug_rows
    /\ Len(rows') = Len(rows) + 1
    /\ SubSeq(rows', 1, Len(rows)) = rows
OneDiagnostic ==
    /\ rows' = rows
    /\ Len(debug_rows') = Len(debug_rows) + 1
    /\ SubSeq(debug_rows', 1, Len(debug_rows)) = debug_rows
NewReason == debug_rows'[Len(debug_rows')].reason

\* the accepted records and the line-level diagnostics of the current file
FileAccepted == Len(rows) - rows0
FileRejected ==
    Cardinality({i \in (debug0 + 1)..Len(debug_rows) :
                    debug_rows[i].line_no >= 2})

\* the data lines process_file has gone through
LinesDone == {i \in 2..(lineno - 1) : i <= Len(lines_bytes)}

OutcomeIs(code) ==
    IF code = "ok" THEN OneRow
    ELSE OneDiagnostic /\ NewReason.code = code

C3_Original ==
    [][(AtLine /\ Here.nonEmpty) =>
         IF Here.tooShort
         THEN OneDiagnostic /\ NewReason = Reason("line_too_short")
         ELSE ~(OneDiagnostic /\ NewReason.code = "line_too_short")]_vars

\* f"{close_val:.4f}" read back
ReadFmt4(t) ==
    LET dot == CHOOSE i \in 1..Len(t) : t[i] = "." IN
    Price(RightmostDigitsValue(SubSeq(t, 1, dot - 1), dot - 1, 1),
          RightmostDigitsValue(SubSeq(t, dot + 1, Len(t)), 4, 1))

\* the closing price an accepted record carries
RowClose(r) ==
    IF variant = "ml" THEN r.closing_price ELSE ReadFmt4(r.closing_price)

\* C4: every record of the accepted buffer has a closing price that is
\* present and lies within [MIN_PRICE, MAX_PRICE] = [0.01, 1000000].
C4_ClosingPriceInBounds ==
    \A i \in DOMAIN rows :
        LET p == RowClose(rows[i]) IN
        /\ p # NONE
        /\ p.whole * 10000 + p.frac >= 100
        /\ (p.whole < 1000000 \/ (p.whole = 1000000 /\ p.frac = 0))

C4_Witness ==
    /\ variant = "byte_level"
    /\ pc = "done"
    /\ \E i \in DOMAIN rows :
          rows[i].closing_price = <<"0", ".", "0", "1", "0", "0">>

\* the line the loop is at passes the length, identifier and parseability
\* checks
ReachesBounds ==
    /\ AtLine
    /\ Here.counted
    /\ ~Here.tooShort
    /\ ~Here.badIdentifier
    /\ ~Here.closeNoDigit

PriceCodes == {"close_unparseable", "close_out_of_bounds", "invalid_close"}

-----------------------------------------------------------------------------
(* Further claims about process_file, checked under Spec *)

\* main hands a file to process_file and reading it fails as a whole
FileFails == pc = "main" /\ files_found' = files_found + 1 /\ pc' = "main"

\* C13: when reading a file fails as a whole, process_file appends exactly
\* one diagnostic, with line_no 0 and the file's name, appends no accepted
\* record, and returns to main, which goes on with the files after it.
C13_FileReadFailure ==
    [][FileFails =>
         /\ rows' = rows
         /\ OneDiagnostic
         /\ debug_rows'[Len(debug_rows')].line_no = 0
         /\ debug_rows'[Len(debug_rows')].file = files_found + 1
         /\ pc' = "main"]_vars

C13_Witness ==
    /\ variant = "byte_level"
    /\ Len(debug_rows) = 1
    /\ debug_rows[1].line_no = 0
    /\ debug_rows[1].file = 1
    /\ Len(rows) = 1
    /\ rows[1].source_file = 2

\* the line number a record carries, 0 when it carries none
LineNoOf(r) == IF "line_no" \in DOMAIN r THEN r.line_no ELSE 0

\* the line numbers of the records and of the line-level diagnostics of the
\* current file, in the order of emission
FileRowNumbers == [i \in 1..(Len(rows) - rows0) |-> LineNoOf(rows[rows0 + i])]
FileDebugNumbers ==
    [i \in 1..(Len(debug_rows) - debug0) |-> debug_rows[debug0 + i].line_no]

Increasing(t) == \A i, j \in DOMAIN t : i < j => t[i] < t[j]

\* C14 as stated: the first line of a file yields nothing; every record and
\* every diagnostic of a later line carries the 1-based position of the line
\* in the file; within a file the reported numbers increase strictly.
C14_Original ==
    pc = "loop" =>
        /\ \A i \in DOMAIN FileRowNumbers :
              /\ FileRowNumbers[i] \in 2..(lineno - 1)
              /\ At(FileRowNumbers[i]).earliestFailure = "ok"
        /\ \A i \in DOMAIN FileDebugNumbers :
              /\ FileDebugNumbers[i] \in 2..(lineno - 1)
              /\ At(FileDebugNumbers[i]).earliestFailure # "ok"
        /\ Increasing(FileRowNumbers)
        /\ Increasing(FileDebugNumbers)

\* C16 as stated: every accepted record carries the trade date resolved for
\* its file, the identifier, the closing price, the source file name and the
\* source line number, in the basic and in the filtering variant.
C16_Original ==
    \A i \in DOMAIN rows :
        /\ {"date", "stock_id", "closing_price", "source_file", "line_no"}
               \subseteq DOMAIN rows[i]
        /\ rows[i].date \in DateTags
        /\ rows[i].source_file \in 1..files_found
        /\ rows[i].line_no >= 2

\* the closing-price field of the line the loop is at is all zeros
CloseAllZero == ~Here.closeNoDigit /\ Here.closePrice = Price(0, 0)

\* the record the step appends has a closing price of 0
AcceptsZero ==
    /\ Len(rows') = Len(rows) + 1
    /\ rows'[Len(rows')].closing_price
           = IF variant = "ml" THEN Price(0, 0)
             ELSE <<"0", ".", "0", "0", "0", "0">>

-----------------------------------------------------------------------------
(* Claims about derive_date_for_file, checked under SpecDate *)

EightDigits(t) == Len(t) = 8 /\ \A i \in 1..8 : t[i] \in Digits

\* C11 as stated: in each variant, for every file content, file name and
\* year hint (absent, 4-digit or any other string), derive_date_for_file
\* returns a string of exactly 8 digits.
C11_Original == pc = "derived" => EightDigits(derived)

\* position i of line k starts a run of 8 digits
RunAt(k, i) ==
    /\ i + 7 <= Len(HeadLines[k])
    /\ \A j \in i..(i + 7) : HeadLines[k][j] \in Digits

\* the leftmost run of 8 digits of line k, or <<>> when it has none
LeftmostRun ==
    [k \in DOMAIN HeadLines |->
        IF \E i \in 1..Len(HeadLines[k]) : RunAt(k, i)
        THEN LET i == CHOOSE a \in 1..Len(HeadLines[k]) :
                         RunAt(k, a) /\ \A b \in 1..(a - 1) : ~RunAt(k, b)
             IN SubSeq(HeadLines[k], i, i + 7)
        ELSE <<>>]

\* the lines of the file that the header rule looks at
HeaderLines == IF readable THEN {i \in 1..Len(head) : i <= 3} ELSE {}

\* the lines among them that hold a run of 8 digits
DatedLines == {i \in HeaderLines : LeftmostRun[head[i]] # <<>>}

Earliest(S) == CHOOSE i \in S : \A j \in S : i <= j

\* the year hint is a 4-digit year
UsableHint == year_hint # NoneStr /\ Len(year_hint) = 4
                  /\ \A i \in 1..4 : year_hint[i] \in Digits

\* the year hint is what the caller derives from a folder name: absent, or a
\* 4-digit year
FolderHint == year_hint = NoneStr \/ UsableHint

\* the parenthesized tag of 3 to 8 digits of the file name, or <<>>
NameTag == IF tag_search(path_name) = NoneStr THEN <<>>
           ELSE tag_search(path_name)

\* what the file name rule gives, or <<>> when it gives nothing
TagCandidate ==
    IF Len(NameTag) \in {3, 4} /\ UsableHint
    THEN year_hint \o (IF Len(NameTag) = 3 THEN <<"0">> ELSE <<>>) \o NameTag
    ELSE IF Len(NameTag) = 8 THEN NameTag
    ELSE <<>>

\* what the last two rules give
DefaultDate ==
    IF UsableHint THEN year_hint \o <<"0", "1", "0", "1">>
    ELSE <<"1", "9", "7", "0", "0", "1", "0", "1">>

\* C12: in the basic variants, if one of the first 3 lines of the file holds
\* a run of 8 digits the result is the leftmost run of the earliest such
\* line, whatever the file name and the year hint; otherwise it is what the
\* file name tag gives; otherwise the year-hint default for a usable year
\* hint; otherwise 19700101.  Lines after the third have no influence.
C12_StrictPriority ==
    (pc = "derived" /\ variant # "ml") =>
        derived = IF DatedLines # {}
                  THEN LeftmostRun[head[Earliest(DatedLines)]]
                  ELSE IF TagCandidate # <<>> THEN TagCandidate
                  ELSE DefaultDate

C12_Witness ==
    /\ pc = "derived"
    /\ variant = "byte_level"
    /\ head = <<3, 4, 2, 1>>
    /\ path_name = TagName(<<"0", "4", "2", "0">>)
    /\ year_hint = <<"2", "0", "2", "0">>
    /\ derived = <<"1", "2", "0", "2", "0", "0", "4", "2">>

\* C17: in the basic variants, when no header date is found and the file
\* name holds a parenthesized tag of 3 to 8 digits: a tag of 3 or 4 digits
\* with a year hint resolves to the year hint followed by the tag
\* zero-padded to 4 digits; a tag of 8 digits resolves to itself with or
\* without a year hint; a tag of 5, 6 or 7 digits, or a tag of 3 or 4 digits
\* without a year hint, is ignored and the result is the year-hint default
\* or 19700101.
C17_FileNameTag ==
    (/\ pc = "derived"
     /\ variant # "ml"
     /\ FolderHint
     /\ DatedLines = {}
     /\ NameTag # <<>>) =>
        /\ (Len(NameTag) \in {3, 4} /\ year_hint # NoneStr) =>
               derived = year_hint \o zfill(NameTag, 4)
        /\ Len(NameTag) = 8 => derived = NameTag
        /\ (Len(NameTag) \in {5, 6, 7}
            \/ (Len(NameTag) \in {3, 4} /\ year_hint = NoneStr)) =>
               derived = IF year_hint # NoneStr
                         THEN year_hint \o <<"0", "1", "0", "1">>
                         ELSE <<"1", "9", "7", "0", "0", "1", "0", "1">>

C17_Witness ==
    /\ pc = "derived"
    /\ variant = "diagnostic"
    /\ head = <<4>>
    /\ path_name = TagName(<<"4", "2", "0">>)
    /\ year_hint = <<"2", "0", "2", "0">>
    /\ derived = <<"2", "0", "2", "0", "0", "4", "2", "0">>

\* the number written by characters a..b of t
NumberIn(t, a, b) == Horner(SubSeq(t, a, b), 0)

\* t is YYYYMMDD for a day that exists
CalendarDate(t) ==
    /\ EightDigits(t)
    /\ LET y == NumberIn(t, 1, 4)
           m == NumberIn(t, 5, 6)
           d == NumberIn(t, 7, 8)
           long == {1, 3, 5, 7, 8, 10, 12}
           leap == y % 4 = 0 /\ (y % 100 # 0 \/ y % 400 = 0)
       IN /\ y >= 1
          /\ m \in 1..12
          /\ d >= 1
          /\ d <= (IF m \in long THEN 31
                   ELSE IF m # 2 THEN 30
                   ELSE IF leap THEN 29 ELSE 28)

\* the header lines whose candidate is a real calendar date
ValidDatedLines == {i \in DatedLines : CalendarDate(LeftmostRun[head[i]])}

\* C18: in the strict variant, with the year hint of a folder (absent or a
\* 4-digit year), a candidate from the header or from the file name tag is
\* returned only if it is a real calendar date; a candidate that is not one
\* is discarded and resolution goes on with the next line, then the next
\* rule.
C18_StrictCalendarDate ==
    (pc = "derived" /\ variant = "ml" /\ FolderHint) =>
        /\ derived = IF ValidDatedLines # {}
                     THEN LeftmostRun[head[Earliest(ValidDatedLines)]]
                     ELSE IF CalendarDate(TagCandidate) THEN TagCandidate
                     ELSE DefaultDate
        /\ derived # DefaultDate => CalendarDate(derived)

C18_Witness ==
    /\ pc = "derived"
    /\ variant = "ml"
    /\ head = <<5, 2>>
    /\ path_name = TagName(<<"1", "3", "0", "1">>)
    /\ year_hint = <<"2", "0", "2", "0">>
    /\ derived = <<"2", "0", "2", "0", "0", "1", "0", "1">>

-----------------------------------------------------------------------------
(* Claims about main, checked under SpecMain *)

\* the rows of a file, its header line left out; none when there is no file
DataOf(content) == IF content = NoFile THEN <<>> ELSE Tail(content)

\* C15 as stated: when a run of main ends, every diagnostic created during
\* the run is in the diagnostics output, whatever the number of accepted
\* records, in the basic and in the filtering variant.
C15_Original ==
    pc \in {"done", "exit"} => DataOf(debug_csv) = debug_rows

\* C20: in the batch-flushing main, at every point of the extraction loop
\* the output holds the header once, as its first line, followed by the
\* first total_records accepted records in processing order (so a flush
\* appends, loses nothing and repeats nothing), the records not yet written
\* are those of the batch, and after the last batch the output holds exactly
\* the accepted records and total_records is their number.
C20_FlushedExactlyOnce ==
    (variant = "ml" /\ pc \in {"files", "flushed"}) =>
        /\ total_records <= Len(accepted)
        /\ out_csv = IF total_records = 0 THEN NoFile
                     ELSE <<HeaderRow>> \o SubSeq(accepted, 1, total_records)
        /\ pc = "files" =>
              rows = SubSeq(accepted, total_records + 1, Len(accepted))
        /\ pc = "flushed" => total_records = Len(accepted)

C20_Witness ==
    /\ variant = "ml"
    /\ pc = "flushed"
    /\ ~first_batch
    /\ Len(rows) = 1
    /\ total_records = BATCH_SIZE + 1
    /\ out_csv = <<HeaderRow>> \o accepted

-----------------------------------------------------------------------------
(* Claims about the buffers process_file is handed, checked under Spec *)

\* process_file has appended something for the file it is reading
FileVisible == Len(rows) > rows0 \/ Len(debug_rows) > debug0

\* a line process_file has not reached yet yields a record or a diagnostic
MoreToCome == \E i \in lineno..Len(lines_bytes) : At(i).counted

\* C21 as stated: the records and the diagnostics of a file are in the
\* buffers of main only once the file is completed; in no reachable state do
\* the buffers hold the results of a part of the lines of a file.
C21_Original == ~(pc = "loop" /\ FileVisible /\ MoreToCome)

\* old is a prefix of new
Prefix(old, new) ==
    Len(old) <= Len(new) /\ SubSeq(new, 1, Len(old)) = old

\* C23: process_file only appends to rows and debug_rows: over every step of
\* a call, one that reads the file or one that fails, the previous contents
\* of both buffers are an unchanged prefix of the new contents; a line that
\* is rejected leaves rows unchanged and a line that is accepted leaves
\* debug_rows unchanged.
C23_OnlyAppends ==
    [][/\ Prefix(rows, rows')
       /\ Prefix(debug_rows, debug_rows')
       /\ debug_rows' # debug_rows => rows' = rows
       /\ rows' # rows => debug_rows' = debug_rows]_vars

C23_Witness ==
    /\ variant = "byte_level"
    /\ pc = "main"
    /\ files_found = 2
    /\ lines_bytes = <<>>
    /\ Len(rows) = 1
    /\ rows[1].source_file = 1
    /\ Len(debug_rows) = 2
    /\ debug_rows[1].line_no = 3
    /\ debug_rows[2].line_no = 0
    /\ debug_rows[2].file = 2

-----------------------------------------------------------------------------
(* A further claim about main, checked under SpecMain *)

\* C24: in the batch-flushing main, whenever no file is being processed
\* (after the flush check that follows a file, and after the last batch) the
\* batch in memory holds fewer than BATCH_SIZE records; it reaches or
\* exceeds BATCH_SIZE only inside the iteration of one file, which flushes
\* and empties it.
C24_BatchBelowSize == variant = "ml" => Len(rows) < BATCH_SIZE

C24_Witness ==
    /\ variant = "ml"
    /\ pc = "files"
    /\ accepted = Items(1, BATCH_SIZE - 1) \o Items(2, 2)
    /\ rows = <<>>
    /\ total_records = BATCH_SIZE + 1
    /\ out_csv = <<HeaderRow>> \o accepted

-----------------------------------------------------------------------------
(* The byte-offset and the character-offset basic scripts compared, checked *)
(* under Spec                                                              *)

\* line k holds no byte of a double-byte character
SingleByte(k) == \A i \in 1..Len(InputLines[k]) : InputLines[k][i] # "H"

\* two iterations agree: the same decision, the same record, the same reason
SameOutcome(a, b) ==
    /\ a.row = b.row
    /\ Len(a.dbg) = Len(b.dbg)
    /\ a.dbg # <<>> => a.dbg[1].reason = b.dbg[1].reason

\* C25 as stated: for every data line made only of single-byte characters,
\* extract_quotes_byte_level.process_file and
\* extract_quotes_diagnostic.process_file give the same outcome: the same
\* decision, the same accepted fields, the same rejection reason; lines
\* below the minimum length and lines of spaces only included.
C25_Original ==
    (AtLine /\ SingleByte(lines_bytes[lineno])) =>
        SameOutcome(
            Outcomes["byte_level", fname, date_tag, lineno,
                     lines_bytes[lineno]],
            Outcomes["diagnostic", fname, date_tag, lineno,
                     lines_bytes[lineno]])

-----------------------------------------------------------------------------
(* A claim about process_file over several files, checked under SpecOrder *)

\* what process_file appends for a file when both buffers are empty
Alone(f) ==
    process_file(variant, f.name, f.date, f.readable, f.bytes, <<>>, <<>>)

\* the buffers after the files of a sequence, each taken alone, in order
RECURSIVE Joined(_)
Joined(fs) ==
    IF fs = <<>> THEN Buffers(<<>>, <<>>)
    ELSE LET front == Joined(SubSeq(fs, 1, Len(fs) - 1))
             last == Alone(fs[Len(fs)])
         IN Buffers(front.rows \o last.rows,
                    front.debug_rows \o last.debug_rows)

\* a run of main over a sequence of files, from empty buffers
RECURSIVE RunOver(_)
RunOver(fs) ==
    IF fs = <<>> THEN Buffers(<<>>, <<>>)
    ELSE LET before == RunOver(SubSeq(fs, 1, Len(fs) - 1))
             f == fs[Len(fs)]
         IN process_file(variant, f.name, f.date, f.readable, f.bytes,
                         before.rows, before.debug_rows)

Reversed(fs) == [i \in 1..Len(fs) |-> fs[Len(fs) + 1 - i]]

SetOf(t) == {t[i] : i \in DOMAIN t}

\* C22: what process_file appends for a file is what it appends for that
\* file when the buffers are empty, whatever the buffers hold and whichever
\* files came before; and the run over the two files in the other order
\* gives the same set of accepted records and the same set of diagnostics.
C22_FileResultsIndependent ==
    /\ rows = Joined(SubSeq(run_files, 1, files_found)).rows
    /\ debug_rows = Joined(SubSeq(run_files, 1, files_found)).debug_rows
    /\ pc = "done" =>
          /\ SetOf(rows) = SetOf(RunOver(Reversed(run_files)).rows)
          /\ SetOf(debug_rows)
                 = SetOf(RunOver(Reversed(run_files)).debug_rows)

C22_Witness ==
    /\ variant = "byte_level"
    /\ pc = "done"
    /\ run_files[1].name = 2
    /\ run_files[1].bytes = <<18, 1, 4>>
    /\ run_files[2].bytes = <<18, 13, 1>>
    /\ Len(rows) = 2
    /\ rows[1].source_file = 2
    /\ rows[2].source_file = 1
    /\ Len(debug_rows) = 2

====
